---- MODULE Spec2Model ----
(***************************************************************************)
(* Model of the boss-spawn notification bot (line-bot-boss-tracker).       *)
(*                                                                         *)
(* The repository holds three variants of one server:                      *)
(*   "index"  src/index.js           (no try/catch in the helpers)         *)
(*   "user"   src/unnamed/part_001   (pushes to LINE_USER_ID)              *)
(*   "group"  src/unnamed/part_002   (pushes to LINE_GROUP_ID)             *)
(* The variant is fixed in Init and never changes.                         *)
(*                                                                         *)
(* Time is counted in ticks of thirty minutes since 2025-01-01T00:00:00Z.     *)
(* An ISO-8601 timestamp is represented by its tick; a spreadsheet cell    *)
(* is a sequence, <<>> for an empty cell and <<v>> for a cell holding v;   *)
(* a Date is <<t>>, and <<>> is the Invalid Date.                          *)
(*                                                                         *)
(* Node runs every handler on one thread: the code between two awaits is   *)
(* one atomic action here, and each await is a point where other handlers, *)
(* the clock and timer callbacks may run.                                  *)
(***************************************************************************)
EXTENDS Integers, Sequences, FiniteSets, TLC

VARIABLES
    variant,        \* which of the three server files runs
    now,            \* the wall clock, in ticks (new Date() / Date.now())
    listening,      \* app.listen's callback has run
    store,          \* the rows of BossData!A2:D in the spreadsheet
    scheduledJobs,  \* const scheduledJobs = new Map(): name -> job (0: no entry)
    jobs,           \* every job node-schedule was ever given, in creation order
    tasks,          \* the handlers, one per slot: slot 0 is app.listen's callback,
                    \* slot k the k-th request
    rebuilds,       \* number of scheduleAllNotifications calls started so far
    lastCompleted,  \* the scheduleAllNotifications call that returned last
    finished,       \* what the handler that ended in the last step did (NoResult:
                    \* no handler ended in the last step)
    solo            \* the scheduleAllNotifications call that started last has run
                    \* since its start with no step of anything else in between

vars == <<variant, now, listening, store, scheduledJobs, jobs, tasks,
          rebuilds, lastCompleted, finished, solo>>

----------------------------------------------------------------------------
(* Bounds of the model *)

MaxTime == 2

\* requests the server takes under Spec
MaxRequests == 1

\* refresh requests the server takes under SpecRebuilds
MaxRefreshes == 2
MaxSinkRefreshes == 1
MaxLiveRefreshes == 1
MaxInvalidRefreshes == 1

----------------------------------------------------------------------------
(* Configuration and vocabulary *)

Variants == {"index", "user", "group"}

\* process.env.NOTIFY_BEFORE_MINUTES || "30"
notifyBeforeMinutes == 30

\* the conversion written without the factor 60: the minutes are taken
\* for seconds
SecondsToTicks(m) == (m \div 60) \div 30

\* notifyBeforeMinutes * 60 * 1000 is in milliseconds; the model's clock
\* counts ticks of thirty minutes
MinutesToTicks(m) == m \div 30

\* const testBossName = "TestBoss" (part_001); name: 'Test Boss' (part_002)
TestBossName(v) == IF v = "group" THEN "Test Boss" ELSE "TestBoss"

\* the keys scheduledJobs may have
Names == {"Death", "TestBoss", "Test Boss"}

\* (1 * 60 + 58): the test notification's spawn time, in minutes from now
testSpawnMinutes == 118

EmptyCell == <<>>

InvalidDate == <<>>

\* A timestamp cell whose text is no date ("soon", "TBA"), as a hand edit
\* of the sheet leaves it
NotAnInstant == -1

\* The entry of scheduledJobs that holds null
Null == -1

\* schedule.scheduleJob(date, fn) with an Invalid Date, by the version of
\* node-schedule installed (the repository pins none): job.schedule()
\* compares NaN >= Date.now(), tracks no invocation and scheduleJob returns
\* null; or it takes the date for a recurrence object, builds the default
\* RecurrenceRule (second 0 of every minute) and returns a recurring job
ScheduleJobOutcomes == {"null", "recurs"}

Slots == 0..(IF MaxRequests > MaxRefreshes THEN MaxRequests ELSE MaxRefreshes)

Replies == {"none", "id", "confirm", "failed", "error"}

----------------------------------------------------------------------------
(* Dates and text *)

\* new Date(text) for the text of a timestamp cell: an ISO-8601 string the
\* program wrote itself, or a text that is no date
DateFromISO(iso) == IF iso = NotAnInstant THEN InvalidDate ELSE <<iso>>

\* Date.prototype.getTime; only called on valid dates in the model
GetTime(d) == d[1]

\* String.prototype.toLowerCase on the tokens the model's texts are made of
LowerToken(tok) ==
    CASE tok = "Death"   -> "death"
      [] tok = "Ancient" -> "ancient"
      [] tok = "MyID"    -> "myid"
      [] tok = "!Update" -> "!update"
      [] OTHER           -> tok

\* A text is the sequence of its space-separated tokens (text.split(" "))
ToLowerCase(text) == [i \in DOMAIN text |-> LowerToken(text[i])]

\* the clock part of "YYYY-MM-DD HH:MM:SS", as ticks after midnight
ClockTicks(tok) ==
    CASE tok = "00:30:00" -> <<1>>
      [] tok = "01:00:00" -> <<2>>
      [] tok = "01:30:00" -> <<3>>
      [] tok = "02:00:00" -> <<4>>
      [] OTHER            -> InvalidDate

\* new Date(dateTimeStr): the date-time text is parts.slice(2).join(" ")
DateParse(dateTimeStr) ==
    IF Len(dateTimeStr) = 1 /\ dateTimeStr[1] = "2025-01-01" THEN <<0>>
    ELSE IF Len(dateTimeStr) = 2 /\ dateTimeStr[1] = "2025-01-01"
         THEN ClockTicks(dateTimeStr[2])
         ELSE InvalidDate

\* a test every text passes
AnyTextIsUpdate(text) == Len(text) >= 1

\* text.startsWith("!update")
StartsWithUpdate(text) == Len(text) >= 1 /\ text[1] \in {"!update", "!updates"}

\* The command interpreter of the webhook handler: what the synchronous
\* head of the event callback decides for a text message.
\*   index.js lowercases the whole text first and has no inner try/catch;
\*   part_001 compares the lowercased text with "myid" only;
\*   part_002 has no "myid" branch.
Interpret(v, text) ==
    LET t     == IF v = "index" THEN ToLowerCase(text) ELSE text
        isId  == /\ v # "group"
                 /\ ToLowerCase(text) = <<"myid">>
        parts == t
        when  == DateParse(SubSeq(parts, 3, Len(parts)))
    IN  IF isId THEN [act |-> "myid", bossName |-> "", isoTime |-> 0]
        ELSE IF StartsWithUpdate(t) /\ Len(parts) >= 3
             THEN IF when = InvalidDate
                  \* new Date(dateTimeStr).toISOString() throws a RangeError
                  THEN [act |-> "badDate", bossName |-> parts[2], isoTime |-> 0]
                  ELSE [act |-> "update", bossName |-> parts[2],
                        isoTime |-> GetTime(when)]
             ELSE [act |-> "ignore", bossName |-> "", isoTime |-> 0]

\* The texts the model sends to the webhook
Texts ==
    { <<"MyID">>, <<"hello", "Death", "2025-01-01", "01:30:00">>,
      <<"!update", "Death">>,
      <<"!update", "Death", "soon">>,
      <<"!update", "Death", "2025-01-01", "soon">> }
    \cup { <<"!update", n, "2025-01-01", c>> :
             n \in {"Death", "Nobody"}, c \in {"00:30:00", "01:30:00"} }

----------------------------------------------------------------------------
(* The spreadsheet *)

Row(name, location, nextSpawn, status) ==
    [name |-> name, location |-> location, nextSpawn |-> nextSpawn, status |-> status]

\* The sheets the program may find when it starts: a timestamp cell is
\* empty or holds an ISO timestamp; nothing keeps the names of a sheet
\* apart, and the second sheet has two rows of one name
InitStores ==
    { << Row("Death",    "Cave",  <<3>>, <<"occurred">>),
         Row("TestBoss", "Test Location", EmptyCell, EmptyCell) >>,
      << Row("Death",    "Cave",  <<2>>, EmptyCell),
         Row("Death",    "Abyss", <<3>>, EmptyCell) >> }

\* rows.findIndex((row) => row[0] === bossName), 0 for -1
RECURSIVE FindIndexFrom(_, _, _)
FindIndexFrom(rows, bossName, i) ==
    IF i > Len(rows) THEN 0
    ELSE IF rows[i].name = bossName THEN i
         ELSE FindIndexFrom(rows, bossName, i + 1)

FindIndex(rows, bossName) == FindIndexFrom(rows, bossName, 1)

\* the rows with an hour from now as the default of an empty timestamp
GetBossDataMapLater(rows, t) ==
    [i \in DOMAIN rows |->
        [name      |-> rows[i].name,
         location  |-> rows[i].location,
         nextSpawn |-> IF rows[i].nextSpawn = EmptyCell THEN t + 2 ELSE rows[i].nextSpawn[1],
         status    |-> IF rows[i].status = EmptyCell THEN "upcoming" ELSE rows[i].status[1]]]

\* rows.map(row => ({name, location, nextSpawn: row[2] || new Date().toISOString(),
\*                   status: row[3] || "upcoming"}))
GetBossDataMap(rows, t) ==
    [i \in DOMAIN rows |->
        [name      |-> rows[i].name,
         location  |-> rows[i].location,
         nextSpawn |-> IF rows[i].nextSpawn = EmptyCell THEN t ELSE rows[i].nextSpawn[1],
         status    |-> IF rows[i].status = EmptyCell THEN "upcoming" ELSE rows[i].status[1]]]

----------------------------------------------------------------------------
(* The scheduling core *)

\* A job of node-schedule, with what its callback closes over (boss.name,
\* boss.location, boss.nextSpawn).  state: "pending" until the timer fires
\* ("fired"); a job that job.cancel() reached while pending leaves the model
\* (it stays, as "cancelled", when cancelAllJobs throws before its clear()).
\* "recurring" is a job with a recurrence rule, "sending" a callback that
\* awaits the push where the callback is taken in two steps.
\* by/at record the scheduleAllNotifications call that created it and the
\* clock then; missed records that a cancelAllJobs call ran while the job
\* was pending and did not reach it; firedAt and sent record the clock when
\* the callback ran and the arguments it gave sendBossNotification.
NewJob(boss, notificationTime, rid, t) ==
    [name      |-> boss.name,
     location  |-> boss.location,
     nextSpawn |-> boss.nextSpawn,
     fireAt    |-> notificationTime,
     by        |-> rid,
     at        |-> t,
     state     |-> "pending",
     missed    |-> FALSE,
     pushes    |-> 0,
     delivery  |-> "none",
     firedAt   |-> 0,
     since     |-> 0,
     sent      |-> <<>>]

\* scheduledJobs holds the job: some entry of the map is this job
Held(map, j) == \E n \in Names : map[n] = j

\* a cancel() that also takes down a callback that is awaiting the push
CancelsInFlight(job) == job.state \in {"pending", "recurring", "sending"}

\* job.cancel() takes effect: the job's invocation is pending (nothing
\* happens to a job that has fired)
Cancels(job) == job.state \in {"pending", "recurring"}

\* cancelAllJobs: scheduledJobs.forEach(job => job.cancel()), from the
\* i-th job on: the jobs that remain.  scheduledJobs.clear() follows, so
\* no entry refers to a job's place in the sequence any more
RECURSIVE CancelAllFrom(_, _, _)
CancelAllFrom(js, map, i) ==
    IF i > Len(js) THEN <<>>
    ELSE IF Held(map, i) /\ Cancels(js[i])
         THEN CancelAllFrom(js, map, i + 1)
         ELSE << [js[i] EXCEPT !.missed = @ \/ js[i].state = "pending"] >>
              \o CancelAllFrom(js, map, i + 1)

CancelAllJobs(js, map) == CancelAllFrom(js, map, 1)

\* scheduledJobs.forEach visits the keys in the order they were first set
\* since the last clear(), which is the order of the sheet's rows (every
\* rebuild sets them in that order, and the rows keep their names): the row
\* whose key is the first to hold null, 0 when none does.  job.cancel() on
\* null throws a TypeError, which ends the forEach
RECURSIVE ThrowsAtFrom(_, _, _)
ThrowsAtFrom(rows, map, i) ==
    IF i > Len(rows) THEN 0
    ELSE IF map[rows[i].name] = Null THEN i
         ELSE ThrowsAtFrom(rows, map, i + 1)

ThrowsAt(rows, map) == ThrowsAtFrom(rows, map, 1)

\* the entries the forEach has visited when it throws at row k
VisitedBefore(rows, map, k) ==
    [n \in Names |-> IF \E i \in 1..(k - 1) : rows[i].name = n THEN map[n] ELSE 0]

\* cancelAllJobs that throws at row k: the jobs of the entries visited are
\* cancelled and stay in scheduledJobs, which is not cleared
CancelUntilThrow(js, rows, map, k) ==
    [j \in DOMAIN js |->
        IF Held(VisitedBefore(rows, map, k), j) /\ Cancels(js[j])
        THEN [js[j] EXCEPT !.state = "cancelled"]
        ELSE js[j]]

EmptyMap == [n \in Names |-> 0]

\* the skip test written with < : a boss whose notification time is the
\* present instant is scheduled
NotificationTimePassedStrict(notificationTime, t) == notificationTime < t

\* if (notificationTime <= new Date()) return
NotificationTimePassed(notificationTime, t) == notificationTime <= t

\* The outcomes of scheduleJob that tell one forEach from another: the
\* versions differ only on an Invalid Date
OutcomesFor(bossData) ==
    IF \E i \in DOMAIN bossData : DateFromISO(bossData[i].nextSpawn) = InvalidDate
    THEN ScheduleJobOutcomes
    ELSE {"null"}

\* schedule.scheduleJob(notificationTime, async () => {...}): <<the job>>,
\* or <<>> for null.  A recurring job is first due within the minute
ScheduleJob(boss, notificationTime, rid, t, lib) ==
    IF notificationTime # InvalidDate
    THEN << NewJob(boss, GetTime(notificationTime), rid, t) >>
    ELSE IF lib = "null"
         THEN <<>>
         ELSE << [NewJob(boss, t, rid, t) EXCEPT !.state = "recurring"] >>

\* bossData.forEach((boss) => {...}) from the i-th boss on: the jobs and the
\* map after it.  getTime() of an Invalid Date is NaN, new Date(NaN) is an
\* Invalid Date again, and a comparison with it is false
RECURSIVE ForEachBoss(_, _, _, _, _, _, _)
ForEachBoss(bossData, i, js, map, rid, t, lib) ==
    IF i > Len(bossData) THEN [jobs |-> js, map |-> map]
    ELSE LET boss             == bossData[i]
             spawnTime        == DateFromISO(boss.nextSpawn)
             notificationTime == IF spawnTime = InvalidDate THEN InvalidDate
                                 ELSE << GetTime(spawnTime) - MinutesToTicks(notifyBeforeMinutes) >>
             job              == ScheduleJob(boss, notificationTime, rid, t, lib)
         IN  IF notificationTime # InvalidDate
                /\ NotificationTimePassed(GetTime(notificationTime), t)
             THEN ForEachBoss(bossData, i + 1, js, map, rid, t, lib)
             ELSE IF job = <<>>
             THEN ForEachBoss(bossData, i + 1, js,
                              [map EXCEPT ![boss.name] = Null], rid, t, lib)
             ELSE ForEachBoss(bossData, i + 1,
                              Append(js, job[1]),
                              [map EXCEPT ![boss.name] = Len(js) + 1],
                              rid, t, lib)

----------------------------------------------------------------------------
(* Handlers in progress *)

(* A handler's awaits are the points where other handlers may run.  Two    *)
(* kinds of await are taken together with the step before them, because    *)
(* nothing another handler does can change what they yield: the read of    *)
(* the name column in updateBossData (no operation changes a name), and    *)
(* lineClient.replyMessage and lineClient.pushMessage (they touch no state *)
(* of the program).                                                        *)

\* The values a function of the program hands its caller
JsBoolean(b) == [type |-> "boolean", value |-> b]

JsUndefined == [type |-> "undefined"]

NotCalled == [type |-> "none"]

\* if (success)
Truthy(v) == v.type = "boolean" /\ v.value

IdleTask ==
    [kind     |-> "none",     \* "startup", "refresh", "test", "update", "notFound",
                              \* "badDate", "myid", "ignored"
     pc       |-> "idle",
     text     |-> <<>>,       \* event.message.text of an update command
     rowIndex |-> 0,          \* updateBossData: the row found
     isoTime  |-> 0,          \* updateBossData: nextSpawnTime
     rows     |-> <<>>,       \* getBossData: response.data.values
     read     |-> "none",     \* getBossData: "ok" / "failed"
     prev     |-> <<>>,       \* updateBossData: <<the row before the first write>>,
                              \* until it returns
     rid      |-> 0,          \* the scheduleAllNotifications call it made
     cancelled |-> 0,         \* the jobs its cancelAllJobs call cancelled
     updated  |-> "none",     \* updateBossData: "ok" / "failed"
     pushed   |-> "none",     \* the handler's own sendBossNotification: "ok" / "failed"
     returned |-> NotCalled,  \* what scheduleAllNotifications or
                              \* sendTestNotification returned to the handler
     replies  |-> {},         \* the messages it passed to replyMessage
     outcome  |-> "none"]     \* "resolved" / "rejected": how the handler's promise settled

NoResult ==
    [kind |-> "none", text |-> <<>>, read |-> "none", updated |-> "none",
     pushed |-> "none", returned |-> NotCalled, replies |-> {},
     outcome |-> "none", status |-> 0]

TypeOK ==
    /\ variant \in Variants
    /\ now \in 0..MaxTime
    /\ listening \in BOOLEAN
    /\ Len(store) = 2
    /\ \A n \in Names : scheduledJobs[n] \in {Null} \cup 0..Len(jobs)
    /\ \A s \in Slots : tasks[s].replies \subseteq Replies
    /\ finished.replies \subseteq Replies
    /\ finished.outcome \in {"none", "resolved", "rejected"}
    /\ finished.status \in {0, 200, 500}
    /\ rebuilds \in 0..Cardinality(Slots)
    /\ solo \in BOOLEAN
    /\ lastCompleted \in 0..rebuilds

Init ==
    /\ variant \in Variants
    /\ now = 0
    /\ listening = FALSE
    /\ store \in InitStores
    /\ scheduledJobs = EmptyMap
    /\ jobs = <<>>
    /\ tasks = [s \in Slots |-> IdleTask]
    /\ rebuilds = 0
    /\ lastCompleted = 0
    /\ finished = NoResult
    /\ solo = FALSE

\* The handler's promise settles and the handler is over
Settled(task, how) == [task EXCEPT !.pc = "done", !.outcome = how]

\* The status of the response the route sends when its handler is over
\* (0: app.listen's callback answers nobody).  The webhook answers
\* res.status(200) after Promise.all and res.status(500) in its catch; the
\* refresh, cron and test routes answer by the value they were returned
HttpStatus(task) ==
    CASE task.kind = "startup"            -> 0
      [] task.kind \in {"refresh", "test"} -> IF Truthy(task.returned) THEN 200 ELSE 500
      [] OTHER -> IF task.outcome = "resolved" THEN 200 ELSE 500

\* What a handler that is over leaves behind
Result(task) ==
    [kind |-> task.kind, text |-> task.text, read |-> task.read,
     updated |-> task.updated, pushed |-> task.pushed, returned |-> task.returned,
     replies |-> task.replies, outcome |-> task.outcome, status |-> HttpStatus(task)]

DoneTask == [IdleTask EXCEPT !.pc = "done"]

\* The handler in slot s goes on as task; when that is its end, its
\* locals are gone and finished tells what it did
Continue(s, task) ==
    IF task.pc = "done"
    THEN /\ tasks' = [tasks EXCEPT ![s] = DoneTask]
         /\ finished' = Result(task)
    ELSE /\ tasks' = [tasks EXCEPT ![s] = task]
         /\ finished' = NoResult

\* await lineClient.replyMessage(event.replyToken, message) and the rest of
\* the event callback.  fails is the number of replyMessage calls that
\* reject.  In part_001/part_002 the replies "Updated ..." and "Failed to
\* update ..." are sent inside the try block of the update command, whose
\* catch sends the format-error reply; a rejection anywhere else leaves the
\* callback.
Replied(task, message, fails) ==
    LET inTry == variant # "index" /\ message \in {"confirm", "failed"}
    IN  IF fails = 0
        THEN Settled([task EXCEPT !.replies = @ \cup {message}], "resolved")
        ELSE IF inTry
             THEN Settled([task EXCEPT !.replies = @ \cup {message, "error"}],
                          IF fails = 1 THEN "resolved" ELSE "rejected")
             ELSE Settled([task EXCEPT !.replies = @ \cup {message}], "rejected")

\* await sendBossNotification(...) in the test notification: fails tells
\* whether lineClient.pushMessage rejects; sendBossNotification catches it
PushResult(fails) == IF fails = 0 THEN "ok" ELSE "failed"

\* The test notification after updateBossData returned (how): part_001
\* then sends the notification, part_002 has sent it before; both ignore
\* what the two calls returned and return success
TestUpdated(task, how, fails) ==
    Settled([task EXCEPT !.updated = how,
                         !.pushed = IF variant = "group" THEN @ ELSE PushResult(fails),
                         !.returned = JsBoolean(TRUE)],
            "resolved")

\* updateBossData failed: index.js lets the error reach the webhook
\* handler; part_001/part_002 catch it, return false, and the callback
\* replies "Failed to update spawn time"
UpdateFailed(task, fails) ==
    IF task.kind = "test" THEN TestUpdated(task, "failed", fails)
    ELSE IF variant = "index"
         THEN Settled([task EXCEPT !.updated = "failed"], "rejected")
         ELSE Replied([task EXCEPT !.updated = "failed"], "failed", fails)

\* scheduleAllNotifications up to its first await: cancelAllJobs(), then
\* getBossData() sends its request.  task is the caller's record.
RebuildStart(s, task) ==
    LET k == ThrowsAt(store, scheduledJobs)
    IN  IF k = 0
        THEN /\ jobs' = CancelAllJobs(jobs, scheduledJobs)
             /\ scheduledJobs' = EmptyMap
             /\ rebuilds' = rebuilds + 1
             /\ solo' = TRUE
             /\ Continue(s, [task EXCEPT
                               !.pc = "reading", !.rid = rebuilds + 1,
                               !.cancelled = Len(jobs) - Len(CancelAllJobs(jobs, scheduledJobs))])
        ELSE \* cancelAllJobs throws before scheduledJobs.clear(): index.js
             \* rejects, part_001/part_002 catch the error and return false
             \* (the webhook handler then replies as after any rebuild)
             LET left == CancelUntilThrow(jobs, store, scheduledJobs, k)
                 thrown == [task EXCEPT !.rid = rebuilds + 1,
                                        !.cancelled = Cardinality({j \in DOMAIN jobs :
                                                                     left[j] # jobs[j]}),
                                        !.returned = IF variant = "index" THEN NotCalled
                                                     ELSE JsBoolean(FALSE)]
             IN  /\ jobs' = left
                 /\ scheduledJobs' = scheduledJobs
                 /\ rebuilds' = rebuilds + 1
                 /\ solo' = FALSE
                 /\ Continue(s, IF variant = "index" THEN Settled(thrown, "rejected")
                                ELSE IF task.kind = "update" THEN Replied(thrown, "confirm", 0)
                                ELSE Settled(thrown, "resolved"))

\* app.listen(PORT, () => { scheduleAllNotifications() })
Listen ==
    /\ ~listening
    /\ listening' = TRUE
    /\ RebuildStart(0, [IdleTask EXCEPT !.kind = "startup"])
    /\ UNCHANGED <<variant, now, store, lastCompleted>>

\* The next request takes the first free slot; max requests are taken
FreeSlot(s, max) ==
    /\ s \in 1..max
    /\ tasks[s].pc = "idle"
    /\ \A r \in Slots : r < s => tasks[r].pc # "idle"

\* GET /api/refresh-notifications (part_001), GET /cron and
\* POST /refresh-notifications (part_002); index.js has no such endpoint
RefreshUpTo(s, max) ==
    /\ listening
    /\ variant # "index"
    /\ FreeSlot(s, max)
    /\ RebuildStart(s, [IdleTask EXCEPT !.kind = "refresh"])
    /\ UNCHANGED <<variant, now, listening, store, lastCompleted>>

Refresh(s) == RefreshUpTo(s, MaxRequests)

\* POST /webhook, the callback of one text message event: a command that
\* is no well-formed update runs to its end; an update runs until
\* updateBossData has found the row (found: the read of column A succeeded)
\* and sent the write of column C
WebhookEvent(s, text, found, fails) ==
    /\ listening
    /\ FreeSlot(s, MaxRequests)
    /\ solo' = FALSE
    /\ LET cmd  == Interpret(variant, text)
           task == [IdleTask EXCEPT !.kind = cmd.act, !.text = text]
           rowIndex == FindIndex(store, cmd.bossName)
       IN  Continue(s,
             CASE cmd.act = "myid"    -> Replied(task, "id", fails)
               [] cmd.act = "badDate" ->
                    IF variant = "index" THEN Settled(task, "rejected")
                    ELSE Replied(task, "error", fails)
               [] cmd.act = "update"  ->
                    IF found /\ rowIndex # 0
                    THEN [task EXCEPT !.pc = "writeC", !.rowIndex = rowIndex,
                                      !.isoTime = cmd.isoTime, !.text = text]
                    ELSE UpdateFailed([task EXCEPT !.text = text,
                                         !.kind = IF found THEN "notFound" ELSE @],
                                      fails)
               [] OTHER -> Settled([task EXCEPT !.kind = "ignored"], "resolved"))
    /\ UNCHANGED <<variant, now, listening, store, scheduledJobs, jobs,
                   rebuilds, lastCompleted>>

\* POST /api/test-notification (part_001, sendTestNotification) and
\* POST /send-test-notification (part_002, sendTestNotificationWithTime):
\* the spawn time is 1 h 58 min from now; part_001 updates the sheet and
\* then sends the notification, part_002 sends it and then updates the
\* sheet.  The step runs until updateBossData has found the row and sent
\* the write of column C, or to the handler's end when it finds none
TestNotification(s, found, fails) ==
    /\ listening
    /\ variant # "index"
    /\ FreeSlot(s, MaxRequests)
    /\ solo' = FALSE
    /\ LET spawnTime == now + MinutesToTicks(testSpawnMinutes)
           rowIndex  == FindIndex(store, TestBossName(variant))
           task == [IdleTask EXCEPT
                      !.kind = "test", !.isoTime = spawnTime,
                      !.pushed = IF variant = "group" THEN PushResult(fails) ELSE @]
       IN  Continue(s,
             IF found /\ rowIndex # 0
             THEN [task EXCEPT !.pc = "writeC", !.rowIndex = rowIndex]
             ELSE TestUpdated(task, "failed", fails))
    /\ UNCHANGED <<variant, now, listening, store, scheduledJobs, jobs,
                   rebuilds, lastCompleted>>

\* updateBossData: the write of the timestamp column C is done (ok) or
\* fails; then the write of column D is sent
UpdWriteC(s, ok, fails) ==
    /\ tasks[s].pc = "writeC"
    /\ IF ok
       THEN /\ store' = [store EXCEPT ![tasks[s].rowIndex].nextSpawn = <<tasks[s].isoTime>>]
            /\ Continue(s, [tasks[s] EXCEPT !.pc = "writeD",
                                            !.prev = <<store[tasks[s].rowIndex]>>])
       ELSE /\ Continue(s, UpdateFailed(tasks[s], fails))
            /\ UNCHANGED store
    /\ solo' = FALSE
    /\ UNCHANGED <<variant, now, listening, scheduledJobs, jobs,
                   rebuilds, lastCompleted>>

\* updateBossData: the write of the status column D is done (ok) or fails;
\* on success it returns true and the webhook handler calls
\* scheduleAllNotifications; the test notification does not
UpdWriteD(s, ok, fails) ==
    /\ tasks[s].pc = "writeD"
    /\ IF ok /\ tasks[s].kind = "test"
       THEN /\ store' = [store EXCEPT ![tasks[s].rowIndex].status = <<"upcoming">>]
            /\ Continue(s, TestUpdated([tasks[s] EXCEPT !.prev = <<>>], "ok", fails))
            /\ solo' = FALSE
            /\ UNCHANGED <<scheduledJobs, jobs, rebuilds>>
       ELSE IF ok
       THEN /\ store' = [store EXCEPT ![tasks[s].rowIndex].status = <<"upcoming">>]
            /\ RebuildStart(s, [tasks[s] EXCEPT !.updated = "ok", !.prev = <<>>])
       ELSE /\ Continue(s, UpdateFailed(tasks[s], fails))
            /\ solo' = FALSE
            /\ UNCHANGED <<store, scheduledJobs, jobs, rebuilds>>
    /\ UNCHANGED <<variant, now, listening, lastCompleted>>

\* getBossData: the spreadsheet answers the read of BossData!A2:D with the
\* rows it holds now (ok), or the read fails: part_001/part_002 return [],
\* index.js throws out of scheduleAllNotifications and out of its caller
SnapshotRead(s, ok) ==
    /\ tasks[s].pc = "reading"
    /\ solo' = (solo /\ ok /\ tasks[s].rid = rebuilds)
    /\ Continue(s,
          IF ok THEN [tasks[s] EXCEPT !.pc = "fetched", !.rows = store, !.read = "ok"]
          ELSE IF variant = "index"
               THEN Settled([tasks[s] EXCEPT !.read = "failed"], "rejected")
               ELSE [tasks[s] EXCEPT !.pc = "fetched", !.rows = <<>>, !.read = "failed"])
    /\ UNCHANGED <<variant, now, listening, store, scheduledJobs, jobs,
                   rebuilds, lastCompleted>>

\* scheduleAllNotifications ends with return true in part_001/part_002 and
\* with no return statement in index.js
ScheduleReturns(v) == IF v = "index" THEN JsUndefined ELSE JsBoolean(TRUE)

\* scheduleAllNotifications after await getBossData(): the forEach that
\* installs the jobs, its return, and the rest of the caller (the update
\* command replies "Updated spawn time ...")
Install(s, fails) ==
    /\ tasks[s].pc = "fetched"
    /\ \E lib \in OutcomesFor(GetBossDataMap(tasks[s].rows, now)) :
          LET bossData == GetBossDataMap(tasks[s].rows, now)
              after    == ForEachBoss(bossData, 1, jobs, scheduledJobs, tasks[s].rid, now, lib)
          IN  /\ jobs' = after.jobs
              /\ scheduledJobs' = after.map
    /\ lastCompleted' = tasks[s].rid
    /\ solo' = FALSE
    /\ LET task == [tasks[s] EXCEPT !.returned = ScheduleReturns(variant)]
       IN  Continue(s,
             IF task.kind = "update"
             THEN Replied(task, "confirm", fails)
             ELSE Settled(task, "resolved"))
    /\ UNCHANGED <<variant, now, listening, store, rebuilds>>

----------------------------------------------------------------------------
(* The clock and the timers *)

Pending(j) == jobs[j].state = "pending"

\* the wall clock advances; a timer that is due fires before it does
Tick ==
    /\ now < MaxTime
    /\ \A j \in DOMAIN jobs : Pending(j) => jobs[j].fireAt > now
    /\ now' = now + 1
    /\ solo' = FALSE
    /\ finished' = NoResult
    /\ UNCHANGED <<variant, listening, store, scheduledJobs, jobs, tasks,
                   rebuilds, lastCompleted>>

\* a callback that leaves the job armed when the push is rejected
InvokeRetrying(job, ok) ==
    [job EXCEPT !.state = IF ok THEN "fired" ELSE "pending", !.pushes = @ + 1,
                !.delivery = IF ok THEN "ok" ELSE "failed",
                !.firedAt = now,
                !.sent = << [bossName |-> job.name, location |-> job.location,
                             spawnTime |-> job.nextSpawn] >>]

\* a callback that reads the boss's row again when the timer fires
InvokeRereading(job, ok) ==
    LET i   == FindIndex(store, job.name)
        row == GetBossDataMap(store, now)[i]
    IN  [job EXCEPT !.state = "fired", !.pushes = @ + 1,
                    !.delivery = IF ok THEN "ok" ELSE "failed",
                    !.firedAt = now,
                    !.sent = << [bossName  |-> job.name,
                                 location  |-> IF i = 0 THEN job.location ELSE row.location,
                                 spawnTime |-> IF i = 0 THEN job.nextSpawn ELSE row.nextSpawn] >>]

\* the job after its timer fired: the callback calls sendBossNotification,
\* which awaits lineClient.pushMessage once; ok tells whether the push
\* resolved.  A rejection is logged (part_001/part_002) or handed to
\* node-schedule (index.js), and nothing else happens
Invoke(job, ok) ==
    [job EXCEPT !.state = "fired", !.pushes = @ + 1,
                !.delivery = IF ok THEN "ok" ELSE "failed",
                !.firedAt = now,
                !.sent = << [bossName |-> job.name, location |-> job.location,
                             spawnTime |-> job.nextSpawn] >>]

\* a callback that also marks the boss's row as occurred
FireMarkingOccurred(j, ok) ==
    /\ Pending(j)
    /\ jobs[j].fireAt <= now
    /\ jobs' = [jobs EXCEPT ![j] = Invoke(jobs[j], ok)]
    /\ store' = [i \in DOMAIN store |->
                   IF store[i].name = jobs[j].name
                   THEN [store[i] EXCEPT !.status = <<"occurred">>]
                   ELSE store[i]]
    /\ solo' = FALSE
    /\ finished' = NoResult
    /\ UNCHANGED <<variant, now, listening, scheduledJobs, tasks,
                   rebuilds, lastCompleted>>

\* a scheduler that runs only the callbacks of the jobs in scheduledJobs
FireHeldOnly(j, ok) ==
    /\ Pending(j)
    /\ Held(scheduledJobs, j)
    /\ jobs[j].fireAt <= now
    /\ jobs' = [jobs EXCEPT ![j] = Invoke(jobs[j], ok)]
    /\ solo' = FALSE
    /\ finished' = NoResult
    /\ UNCHANGED <<variant, now, listening, store, scheduledJobs, tasks,
                   rebuilds, lastCompleted>>

\* node-schedule runs the callback of a job whose time has come
Fire(j, ok) ==
    /\ Pending(j)
    /\ jobs[j].fireAt <= now
    /\ jobs' = [jobs EXCEPT ![j] = Invoke(jobs[j], ok)]
    /\ solo' = FALSE
    /\ finished' = NoResult
    /\ UNCHANGED <<variant, now, listening, store, scheduledJobs, tasks,
                   rebuilds, lastCompleted>>

----------------------------------------------------------------------------

\* The outcomes of the replyMessage calls of a step: the number of calls
\* that reject, when the step may reply at all
Fails(mayReply) == IF mayReply THEN {0, 1, 2} ELSE {0}

\* The outcomes of the read of the name column, when the command makes one
Founds(text) == IF Interpret(variant, text).act = "update" THEN BOOLEAN ELSE {TRUE}

\* the slots whose handler is at pc
At(pc) == {s \in Slots : tasks[s].pc = pc}

\* the slot the next of at most max requests takes, if any
FreeSlots(max) == {s \in Slots : FreeSlot(s, max)}

Next ==
    \/ Listen
    \/ \E s \in FreeSlots(MaxRequests) : Refresh(s)
    \/ \E s \in FreeSlots(MaxRequests) : \E text \in Texts : \E found \in Founds(text) :
         \E fails \in Fails(Interpret(variant, text).act \in {"myid", "badDate", "update"}) :
            WebhookEvent(s, text, found, fails)
    \/ \E s \in FreeSlots(MaxRequests) : \E found \in BOOLEAN, fails \in {0, 1} :
         TestNotification(s, found, fails)
    \/ \E s \in At("writeC"), ok \in BOOLEAN : \E fails \in Fails(~ok) : UpdWriteC(s, ok, fails)
    \/ \E s \in At("writeD"), ok \in BOOLEAN :
         \E fails \in Fails(~ok \/ tasks[s].kind = "test") : UpdWriteD(s, ok, fails)
    \/ \E s \in At("reading"), ok \in BOOLEAN : SnapshotRead(s, ok)
    \/ \E s \in At("fetched") : \E fails \in Fails(tasks[s].kind = "update") : Install(s, fails)
    \/ Tick
    \/ \E j \in DOMAIN jobs, ok \in BOOLEAN : Fire(j, ok)

Spec == Init /\ [][Next]_vars

\* The scheduling core alone: the server starts and takes refresh requests
NextRebuilds ==
    \/ Listen
    \/ \E s \in FreeSlots(MaxRefreshes) : RefreshUpTo(s, MaxRefreshes)
    \/ \E s \in At("reading"), ok \in BOOLEAN : SnapshotRead(s, ok)
    \/ \E s \in At("fetched") : Install(s, 0)
    \/ Tick
    \/ \E j \in DOMAIN jobs, ok \in BOOLEAN : Fire(j, ok)

SpecRebuilds == Init /\ [][NextRebuilds]_vars

\* The callback in two steps: node-schedule runs the callback of a due job,
\* which builds the message and calls lineClient.pushMessage (the job is
\* "sending" and remembers in since how many rebuilds had begun) ...
FireStart(j) ==
    /\ Pending(j)
    /\ jobs[j].fireAt <= now
    /\ jobs' = [jobs EXCEPT ![j] = [Invoke(jobs[j], TRUE) EXCEPT !.state = "sending",
                                                                !.delivery = "none",
                                                                !.since = rebuilds]]
    /\ solo' = FALSE
    /\ finished' = NoResult
    /\ UNCHANGED <<variant, now, listening, store, scheduledJobs, tasks,
                   rebuilds, lastCompleted>>

\* ... and the push resolves (ok) or rejects, which ends the callback
PushDone(j, ok) ==
    /\ jobs[j].state = "sending"
    /\ jobs' = [jobs EXCEPT ![j] = [@ EXCEPT !.state = "fired",
                                             !.delivery = IF ok THEN "ok" ELSE "failed"]]
    /\ solo' = FALSE
    /\ finished' = NoResult
    /\ UNCHANGED <<variant, now, listening, store, scheduledJobs, tasks,
                   rebuilds, lastCompleted>>

\* The scheduling core with a sink that takes its time: rebuilds run while
\* callbacks await the push
NextSink ==
    \/ Listen
    \/ \E s \in FreeSlots(MaxSinkRefreshes) : RefreshUpTo(s, MaxSinkRefreshes)
    \/ \E s \in At("reading"), ok \in BOOLEAN : SnapshotRead(s, ok)
    \/ \E s \in At("fetched") : Install(s, 0)
    \/ Tick
    \/ \E j \in DOMAIN jobs : FireStart(j)
    \/ \E j \in DOMAIN jobs, ok \in BOOLEAN : PushDone(j, ok)

SpecSink == Init /\ [][NextSink]_vars

\* The scheduling core under a clock that keeps going and a scheduler that
\* runs the callback of a due job: node-schedule arms a timer of the
\* event loop for every job, and the process stays up once it listens
NextLive ==
    \/ Listen
    \/ \E s \in FreeSlots(MaxLiveRefreshes) : RefreshUpTo(s, MaxLiveRefreshes)
    \/ \E s \in At("reading"), ok \in BOOLEAN : SnapshotRead(s, ok)
    \/ \E s \in At("fetched") : Install(s, 0)
    \/ Tick
    \/ \E j \in DOMAIN jobs, ok \in BOOLEAN : Fire(j, ok)

\* Sheets in which somebody typed a timestamp that is no date
InvalidStores ==
    { << Row("Death", "Cave", <<NotAnInstant>>, EmptyCell),
         Row("TestBoss", "Test Location", <<3>>, EmptyCell) >>,
      << Row("Death", "Cave", <<3>>, EmptyCell),
         Row("TestBoss", "Test Location", <<NotAnInstant>>, EmptyCell) >> }

InitInvalid ==
    /\ variant \in Variants
    /\ now = 0
    /\ listening = FALSE
    /\ store \in InvalidStores
    /\ scheduledJobs = EmptyMap
    /\ jobs = <<>>
    /\ tasks = [s \in Slots |-> IdleTask]
    /\ rebuilds = 0
    /\ lastCompleted = 0
    /\ finished = NoResult
    /\ solo = FALSE

\* node-schedule runs the callback of a recurring job, which stays armed
\* for the next minute (the next tick of the model's clock)
FireRecurring(j, ok) ==
    /\ jobs[j].state = "recurring"
    /\ jobs[j].fireAt <= now
    /\ jobs' = [jobs EXCEPT ![j] = [Invoke(jobs[j], ok) EXCEPT !.state = "recurring",
                                                              !.fireAt = now + 1]]
    /\ solo' = FALSE
    /\ finished' = NoResult
    /\ UNCHANGED <<variant, now, listening, store, scheduledJobs, tasks,
                   rebuilds, lastCompleted>>

\* The scheduling core over a sheet with a timestamp that is no date
NextInvalid ==
    \/ Listen
    \/ \E s \in FreeSlots(MaxInvalidRefreshes) : RefreshUpTo(s, MaxInvalidRefreshes)
    \/ \E s \in At("reading"), ok \in BOOLEAN : SnapshotRead(s, ok)
    \/ \E s \in At("fetched") : Install(s, 0)
    \/ Tick
    \/ \E j \in DOMAIN jobs, ok \in BOOLEAN : Fire(j, ok)
    \/ \E j \in DOMAIN jobs, ok \in BOOLEAN : FireRecurring(j, ok)

SpecInvalid == InitInvalid /\ [][NextInvalid]_vars

SpecLive ==
    /\ Init
    /\ [][NextLive]_vars
    /\ WF_vars(Tick)
    /\ WF_vars(\E j \in DOMAIN jobs, ok \in BOOLEAN : Fire(j, ok))

----------------------------------------------------------------------------
(* Properties *)

\* the jobs whose timer can still fire
LiveJobs == {j \in DOMAIN jobs : Pending(j)}

FiredJobs == {j \in DOMAIN jobs : jobs[j].state = "fired"}

\* the scheduleAllNotifications calls in progress
Rebuilding == At("reading") \cup At("fetched")

\* the entities of a snapshot whose notification time is in the future at t
FutureEntities(bossData, t) ==
    {i \in DOMAIN bossData :
        bossData[i].nextSpawn - MinutesToTicks(notifyBeforeMinutes) > t}

\* C1: in every reachable state there is at most one live timer per
\* entity name.
C1_OneLiveTimerPerName ==
    \A i, j \in LiveJobs : jobs[i].name = jobs[j].name => i = j

\* C2: once two rebuilds that ran at the same time have both completed,
\* the live timers are those of the rebuild that started last, never a mix:
\* when no rebuild is in progress, every live timer was installed by the
\* scheduleAllNotifications call that started last.
C2_LastStartedRebuildWins ==
    (rebuilds >= 2 /\ Rebuilding = {}) =>
        \A j \in LiveJobs : jobs[j].by = rebuilds

\* C3: for every entity and occurrence time the sink is invoked by a
\* timer at most once: no two timers that fired carry the same name and
\* occurrence, and no timer pushes twice.
C3_NotifiedOncePerOccurrence ==
    /\ \A j \in DOMAIN jobs : jobs[j].pushes <= 1
    /\ \A i, j \in FiredJobs :
          (jobs[i].name = jobs[j].name /\ jobs[i].nextSpawn = jobs[j].nextSpawn)
             => i = j

\* C4: after a rebuild that ran from its start to its end with no other
\* step in between, the names with a live timer are exactly the names of
\* the snapshot entities whose notification time is in the future, and
\* there are as many live timers as such entities.
C4_RebuildInstallsExactlyFuture ==
    [][\A s \in Slots :
          (solo /\ tasks[s].pc = "fetched" /\ tasks[s].rid = rebuilds
                /\ lastCompleted' = tasks[s].rid /\ tasks'[s].pc # "fetched")
          => LET bossData == GetBossDataMap(tasks[s].rows, now)
                 future   == FutureEntities(bossData, now)
                 live     == {j \in DOMAIN jobs' : jobs'[j].state = "pending"}
             IN  /\ {jobs'[j].name : j \in live} = {bossData[i].name : i \in future}
                 /\ Cardinality(live) = Cardinality(future)]_vars

\* C5: after a rebuild has returned, every timer that can still fire was
\* installed by the rebuild that returned last and is held in
\* scheduledJobs under its name.
C5_NoTimerOfEarlierRebuild ==
    lastCompleted # 0 =>
        \A j \in LiveJobs : /\ jobs[j].by = lastCompleted
                            /\ scheduledJobs[jobs[j].name] = j

\* C6: no timer fires whose fire time was less than or equal to the
\* clock at the moment it was installed.
C6_NoTimerInstalledDue ==
    \A j \in FiredJobs : jobs[j].fireAt > jobs[j].at

\* a timer fired that was installed after the clock had advanced, from a
\* snapshot read while the rebuild was suspended
C6_Witness ==
    \E j \in FiredJobs : jobs[j].at >= 1 /\ jobs[j].fireAt > jobs[j].at

\* C7: cancelAllJobs leaves scheduledJobs empty, and no timer that was
\* armed before the call fires after it.
C7_CancelAllIsFinal ==
    [][/\ rebuilds' # rebuilds => scheduledJobs' = EmptyMap
       /\ \A j \in DOMAIN jobs :
             (Len(jobs') = Len(jobs) /\ Pending(j) /\ jobs'[j].state = "fired")
                => ~jobs[j].missed]_vars

\* C8: when a timer fires the sink is invoked once for it and its entry
\* leaves the registry: scheduledJobs holds no timer that has fired.
C8_FiredTimerLeavesRegistry ==
    /\ \A j \in FiredJobs : jobs[j].pushes = 1
    /\ \A n \in Names :
          scheduledJobs[n] # 0 => jobs[scheduledJobs[n]].state # "fired"

\* C9: when the sink fails as a timer fires, the timer is consumed as
\* after a successful delivery: it has fired, it is not armed again, and the
\* sink was invoked once for it.
C9_FailedDeliveryIsTerminal ==
    \A j \in DOMAIN jobs :
        jobs[j].delivery = "failed" => jobs[j].state = "fired" /\ jobs[j].pushes = 1

\* a delivery failed and the clock went on past the timer's fire time
C9_Witness ==
    \E j \in DOMAIN jobs :
        jobs[j].delivery = "failed" /\ jobs[j].pushes = 1 /\ now > jobs[j].fireAt

\* C10: an update command whose date-time text cannot be parsed changes
\* neither the store nor the timers, starts no rebuild, and the sender is
\* sent an error reply.
C10_BadDateRepliesError ==
    [][finished'.kind = "badDate" =>
          /\ store' = store
          /\ jobs' = jobs
          /\ scheduledJobs' = scheduledJobs
          /\ rebuilds' = rebuilds
          /\ "error" \in finished'.replies]_vars

\* the kinds of handler the webhook route runs
WebhookKinds == {"update", "notFound", "badDate", "myid", "ignored"}

\* the name an update command gives, as the sender wrote it
NamedIn(text) == text[2]

\* C11: an update command naming an entity the store does not hold leaves
\* the store and the timers as they are, starts no rebuild, and the sender
\* is sent an error reply.
C11_UnknownNameRepliesError ==
    [][(finished'.kind = "notFound" /\ FindIndex(store, NamedIn(finished'.text)) = 0)
          => /\ store' = store
             /\ jobs' = jobs
             /\ scheduledJobs' = scheduledJobs
             /\ rebuilds' = rebuilds
             /\ finished'.replies \cap {"failed", "error"} # {}]_vars

\* C12: an update command naming an entity the store holds, exactly as the
\* store writes it, does not end as not found; when its handler has come to
\* its end through the rebuild, the row holds the parsed time and the status
\* upcoming, and a timer for the entity is pending if and only if the parsed
\* time minus the lead time is in the future.
C12_UpdateSetsRowAndTimer ==
    [][/\ finished'.kind = "notFound" => FindIndex(store, NamedIn(finished'.text)) = 0
       /\ \A s \in Slots :
             (tasks[s].kind = "update" /\ tasks[s].pc = "fetched" /\ tasks'[s].pc = "done")
             => LET r == tasks[s].rowIndex
                    t == tasks[s].isoTime
                IN  /\ store'[r].nextSpawn = <<t>>
                    /\ store'[r].status = <<"upcoming">>
                    /\ (\E j \in DOMAIN jobs' : /\ jobs'[j].state = "pending"
                                                /\ jobs'[j].name = store'[r].name)
                          <=> (t - 1 > now)]_vars

\* C13: the webhook route answers every batch with status 200, also when
\* the handling of the event failed.
C13_WebhookAlwaysAnswers200 ==
    [][finished'.kind \in WebhookKinds => finished'.status = 200]_vars

\* C14: the refresh route answers 500 when the store could not be read, and
\* the test-notification route answers 500 when the store update or the
\* delivery failed.
C14_ManualRoutesReportFailure ==
    [][(\/ finished'.kind = "refresh" /\ finished'.read = "failed"
        \/ finished'.kind = "test" /\ (finished'.updated = "failed" \/ finished'.pushed = "failed"))
          => finished'.status = 500]_vars

\* C15: when the test notification has succeeded, one notification has been
\* sent and scheduledJobs holds one pending timer for the test entity, the
\* only live timer of that name.
C15_TestNotificationArmsTimer ==
    [][(finished'.kind = "test" /\ finished'.updated = "ok" /\ finished'.pushed = "ok")
          => LET n == TestBossName(variant)
             IN  /\ finished'.status = 200
                 /\ scheduledJobs'[n] # 0
                 /\ jobs'[scheduledJobs'[n]].state = "pending"
                 /\ Cardinality({j \in DOMAIN jobs' : /\ jobs'[j].state = "pending"
                                                      /\ jobs'[j].name = n}) = 1]_vars

\* C16: when a rebuild starts after the rebuild before it has returned,
\* its cancel step cancels exactly the timers that rebuild installed: none
\* of them is left pending and no other timer is touched.
C16_SecondRebuildCancelsTheFirst ==
    [][(rebuilds' = rebuilds + 1 /\ rebuilds >= 1 /\ Rebuilding = {}
            /\ lastCompleted = rebuilds)
          => /\ \A j \in DOMAIN jobs' :
                   jobs'[j].by = rebuilds => jobs'[j].state # "pending"
             /\ Cardinality({j \in DOMAIN jobs' : jobs'[j].by # rebuilds /\ jobs'[j].state = "pending"})
                  = Cardinality({j \in DOMAIN jobs : jobs[j].by # rebuilds /\ Pending(j)})]_vars

\* C17: the notification a timer sends carries the name, the location and
\* the occurrence time its rebuild captured, whatever the store holds when
\* the timer fires.
C17_SendsWhatWasCaptured ==
    \A j \in FiredJobs :
        jobs[j].sent = << [bossName  |-> jobs[j].name,
                           location  |-> jobs[j].location,
                           spawnTime |-> jobs[j].nextSpawn] >>

\* a timer fired after the store's row of its entity was given another
\* time, and no rebuild has started since the one that installed it
C17_Witness ==
    \E j \in FiredJobs :
        /\ jobs[j].by = rebuilds
        /\ \E i \in DOMAIN store :
              /\ store[i].name = jobs[j].name
              /\ \A k \in DOMAIN store : store[k].name = jobs[j].name => k >= i
              /\ store[i].nextSpawn # EmptyCell
              /\ store[i].nextSpawn # <<jobs[j].nextSpawn>>
              /\ jobs[j].sent[1].spawnTime # store[i].nextSpawn[1]

\* C18: a rebuild returns the counts installed, skipped and total, with
\* total the number of snapshot entities, installed the number of timers it
\* armed, skipped the number of entities whose fire time was not in the
\* future, and installed + skipped = total.
C18_RebuildReturnsCounts ==
    [][\A s \in Slots :
          (tasks[s].pc = "fetched" /\ tasks'[s].pc = "done")
          => LET r        == finished'.returned
                 bossData == GetBossDataMap(tasks[s].rows, now)
             IN  /\ r.type = "counts"
                 /\ r.total = Len(bossData)
                 /\ r.installed = Len(jobs') - Len(jobs)
                 /\ r.skipped = Len(bossData) - Cardinality(FutureEntities(bossData, now))
                 /\ r.installed + r.skipped = r.total]_vars

\* C19: every timer a rebuild installs is set to the occurrence time minus
\* thirty minutes (one tick) and fires then; an occurrence no more than
\* thirty minutes ahead of the installation gets no timer.
C19_FiresAtOccurrenceMinusLead ==
    \A j \in DOMAIN jobs :
        /\ jobs[j].fireAt = jobs[j].nextSpawn - 1
        /\ jobs[j].nextSpawn > jobs[j].at + 1
        /\ jobs[j].state = "fired" => jobs[j].firedAt = jobs[j].fireAt

\* an occurrence one hour ahead got a timer that fired thirty minutes later
C19_Witness ==
    \E j \in FiredJobs :
        /\ jobs[j].nextSpawn = jobs[j].at + 2
        /\ jobs[j].firedAt = jobs[j].at + 1

\* C20: when a snapshot holds two entities of one name, the timers a
\* rebuild leaves pending for that name are computed from the last of them.
C20_LastDuplicateWins ==
    [][\A s \in Slots :
          (tasks[s].pc = "fetched" /\ tasks'[s].pc = "done")
          => LET bossData == GetBossDataMap(tasks[s].rows, now)
             IN  \A i, k \in DOMAIN bossData :
                    (i < k /\ bossData[i].name = bossData[k].name
                           /\ \A m \in DOMAIN bossData :
                                 bossData[m].name = bossData[k].name => m <= k)
                    => \A j \in (Len(jobs) + 1)..Len(jobs') :
                          (jobs'[j].name = bossData[k].name /\ jobs'[j].state = "pending")
                             => jobs'[j].nextSpawn = bossData[k].nextSpawn]_vars

IsFired(job) == job.state = "fired"

\* C21: a timer is pending or has fired, and has fired exactly when the
\* sink was invoked once for it; a timer that has fired stays as it is, at
\* most one timer fires in a step, and the timers cancelAllJobs reaches are
\* gone for good: after it the pending timers are those it did not reach;
\* and when a timer fires for a name that was notified before, it is a
\* timer of a later rebuild than the one whose timer fired before.
C21_TimerStateMachine ==
    [][/\ \A j \in DOMAIN jobs' :
             /\ jobs'[j].state \in {"pending", "fired"}
             /\ jobs'[j].pushes = IF jobs'[j].state = "fired" THEN 1 ELSE 0
       /\ LET before == SelectSeq(jobs, IsFired)
              after  == SelectSeq(jobs', IsFired)
          IN  /\ Len(after) \in {Len(before), Len(before) + 1}
              /\ Len(after) = Len(before) => after = before
       /\ rebuilds' # rebuilds =>
             Cardinality({j \in DOMAIN jobs' : jobs'[j].state = "pending"})
               = Cardinality({j \in DOMAIN jobs : Pending(j) /\ ~Held(scheduledJobs, j)})
       /\ \A j \in DOMAIN jobs :
             (Len(jobs') = Len(jobs) /\ Pending(j) /\ jobs'[j].state = "fired")
             => \A i \in FiredJobs :
                   jobs[i].name = jobs[j].name => jobs[j].by > jobs[i].by]_vars

\* C23: a rebuild installs no timer for a row whose timestamp cell is
\* empty (every timer it installs carries the timestamp of a row of that
\* name), and it returns as it does for any snapshot.
C23_MissingTimestampIsSkipped ==
    [][\A s \in Slots :
          (tasks[s].pc = "fetched" /\ tasks[s].read = "ok" /\ tasks'[s].pc = "done")
          => /\ \A j \in (Len(jobs) + 1)..Len(jobs') :
                   \E i \in DOMAIN tasks[s].rows :
                      /\ tasks[s].rows[i].name = jobs'[j].name
                      /\ tasks[s].rows[i].nextSpawn = <<jobs'[j].nextSpawn>>
             /\ lastCompleted' = tasks[s].rid
             /\ finished'.returned # JsBoolean(FALSE)]_vars

\* a rebuild has read the sheet whose TestBoss row has no timestamp; it
\* installed the timer of the other row and none for TestBoss
C23_Witness ==
    /\ \E i \in DOMAIN store : store[i].name = "TestBoss" /\ store[i].nextSpawn = EmptyCell
    /\ \E j \in DOMAIN jobs : jobs[j].by = lastCompleted /\ jobs[j].name = "Death"
    /\ \A j \in DOMAIN jobs : jobs[j].name # "TestBoss"

\* the first word is neither the identity command nor an update command,
\* in any spelling
Unrecognised(text) ==
    Len(text) >= 1 /\ LowerToken(text[1]) \notin {"myid", "!update", "!updates"}

\* C24: a text that is neither the identity command nor an update command
\* is ignored: no reply, no store change, no rebuild, the timers unchanged.
C24_UnrecognisedTextIsIgnored ==
    [][(finished'.kind \in WebhookKinds /\ Unrecognised(finished'.text))
          => /\ finished'.kind = "ignored"
             /\ finished'.replies = {}
             /\ store' = store
             /\ jobs' = jobs
             /\ scheduledJobs' = scheduledJobs
             /\ rebuilds' = rebuilds]_vars

\* an unrecognised text of four words was ignored while a timer was pending
C24_Witness ==
    /\ finished.kind = "ignored"
    /\ Unrecognised(finished.text)
    /\ Len(finished.text) >= 3
    /\ LiveJobs # {}

\* C25: a rebuild whose read of the store failed has cancelled no timer
\* and does not return success.
C25_FailedReadKeepsSchedule ==
    [][\A s \in Slots :
          (tasks[s].pc \in {"reading", "fetched"} /\ tasks'[s].pc = "done"
              /\ finished'.read = "failed")
          => /\ ~Truthy(finished'.returned)
             /\ tasks[s].cancelled = 0]_vars

\* C26: while an update command has written the new timestamp of a row and
\* has not yet come to the rebuild, no timer fires that carries the
\* timestamp the row had before.
C26_OldTimerSilentAfterWrite ==
    [][\A j \in DOMAIN jobs :
          (Len(jobs') = Len(jobs) /\ Pending(j) /\ jobs'[j].state = "fired")
          => ~\E s \in Slots :
                /\ tasks[s].kind = "update"
                /\ tasks[s].pc = "writeD"
                /\ tasks[s].prev[1].name = jobs[j].name
                /\ tasks[s].prev[1].nextSpawn = <<jobs[j].nextSpawn>>
                /\ tasks[s].isoTime # jobs[j].nextSpawn]_vars

\* C27: when updateBossData has failed, the row it was to update is as it
\* was before the call.
C27_UpdateIsAllOrNothing ==
    [][\A s \in Slots :
          (tasks[s].pc = "writeD" /\ tasks'[s].pc = "done" /\ finished'.updated = "failed")
          => store'[tasks[s].rowIndex] = tasks[s].prev[1]]_vars

\* C30: the store changes only in a step of an update command or of the
\* test notification that writes a cell; no other step of a rebuild, no
\* cancelAllJobs and no timer callback changes it.
C30_OnlyUpdatesWriteStore ==
    [][store' # store =>
          \E s \in Slots :
             /\ tasks[s].kind \in {"update", "test"}
             /\ tasks[s].pc \in {"writeC", "writeD"}
             /\ tasks'[s].pc # tasks[s].pc
             /\ \A i \in DOMAIN store : i # tasks[s].rowIndex => store'[i] = store[i]]_vars

\* the store was written, a rebuild ran after the first and a timer fired
C30_Witness ==
    /\ store \notin InitStores
    /\ rebuilds >= 2
    /\ FiredJobs # {}

InFlight == {j \in DOMAIN jobs : jobs[j].state = "sending"}

\* C22: a callback that is awaiting the push is left alone by every step of
\* a rebuild: cancelAllJobs and the installation change the registry and
\* the pending timers while the job of the callback stays as it is, and the
\* only thing that happens to it is that its push resolves or rejects.
C22_RebuildLeavesDeliveryInFlight ==
    [][\A j \in InFlight :
          /\ \/ \E k \in DOMAIN jobs' : jobs'[k] = jobs[j]
             \/ \E d \in {"ok", "failed"} :
                   jobs' = [jobs EXCEPT ![j].state = "fired", ![j].delivery = d]
          /\ (rebuilds' # rebuilds \/ lastCompleted' # lastCompleted)
                => \E k \in DOMAIN jobs' : jobs'[k] = jobs[j]]_vars

\* a rebuild that began after a callback called the push has cancelled a
\* pending timer, installed its own and returned, the push still in flight
C22_Witness ==
    \E j \in InFlight :
        /\ lastCompleted > jobs[j].since
        /\ \E k \in LiveJobs : jobs[k].by = lastCompleted
        /\ \A k \in LiveJobs : jobs[k].by > jobs[j].since

\* The timers a rebuild can install: the name, the rebuild and the
\* timestamp of the row
TimerIds == Names \X (1..(MaxLiveRefreshes + 1)) \X (1..(MaxTime + 1))

JobsOf(id) ==
    {j \in DOMAIN jobs : <<jobs[j].name, jobs[j].by, jobs[j].nextSpawn>> = id}

\* C29: a timer that a rebuild has installed fires in the end and the sink
\* is invoked with the name and the timestamp it was installed with, unless
\* a cancelAllJobs takes it away (a cancelled job leaves the model).
C29_InstalledTimerFires ==
    \A id \in TimerIds :
        (\E j \in JobsOf(id) : Pending(j))
          ~> \/ JobsOf(id) = {}
             \/ \E j \in JobsOf(id) :
                   /\ jobs[j].state = "fired"
                   /\ jobs[j].pushes = 1
                   /\ jobs[j].sent[1].bossName = id[1]
                   /\ jobs[j].sent[1].spawnTime = id[3]

\* a timer that no cancelAllJobs could reach any more has fired, and so has
\* a timer the registry held
C29_Witness ==
    /\ \E j \in FiredJobs : jobs[j].missed \/ ~Held(scheduledJobs, j)
    /\ \E j \in FiredJobs : Held(scheduledJobs, j)
    /\ LiveJobs = {}

\* C28: a rebuild that has read a row whose timestamp is no date installs
\* no job for it and leaves no entry under its name in scheduledJobs; and
\* every scheduleAllNotifications call gets past its cancelAllJobs, which
\* leaves scheduledJobs empty, and neither returns false nor rejects.
C28_InvalidTimestampIsSkipped ==
    [][/\ \A s \in Slots :
             (tasks[s].pc = "fetched" /\ tasks[s].read = "ok" /\ tasks'[s].pc = "done")
             => \A i \in DOMAIN tasks[s].rows :
                   tasks[s].rows[i].nextSpawn = <<NotAnInstant>>
                   => /\ scheduledJobs'[tasks[s].rows[i].name] = 0
                      /\ \A j \in DOMAIN jobs' : jobs'[j].name # tasks[s].rows[i].name
       /\ rebuilds' # rebuilds
             => /\ scheduledJobs' = EmptyMap
                /\ finished'.returned # JsBoolean(FALSE)
                /\ finished'.outcome # "rejected"]_vars

====
